---- MODULE Spec2Model ----
(***************************************************************************)
(* Model of HousePricePredictor (src/src/models/predictor.py): artifact    *)
(* loading at construction, categorical encoding, full-vector assembly,    *)
(* normalization, model invocation and the derived prediction info.        *)
(* Prices are carried in whole dollars, log-scale outputs in thousandths.  *)
(***************************************************************************)
EXTENDS Integers, Sequences, FiniteSets, TLC

VARIABLES disk, model, scaler, model_features, scaler_features, pc, last,
          reqs, validated, page

vars == <<disk, model, scaler, model_features, scaler_features, pc, last,
          reqs, validated, page>>

(***************************************************************************)
(* Python values.  A value is an int, a float, a str or None; n is the     *)
(* magnitude of a number, s the text of a string.                          *)
(***************************************************************************)
PyInt(n) == [t |-> "int", n |-> n, s |-> ""]
PyFloat(n) == [t |-> "float", n |-> n, s |-> ""]
PyStr(s) == [t |-> "str", n |-> 0, s |-> s]
PyNone == [t |-> "none", n |-> 0, s |-> ""]

IsNumber(v) == v.t \in {"int", "float"}

\* Optional attributes of the predictor (None or a value).
None == [some |-> FALSE, v |-> <<>>]
Some(x) == [some |-> TRUE, v |-> x]

\* Python truthiness of an optional list: None and [] are both falsy.
Truthy(o) == o.some /\ Len(o.v) > 0

(***************************************************************************)
(* Python dicts keep insertion order: a dict is a sequence of entries with *)
(* distinct keys.                                                          *)
(***************************************************************************)
Entry(k, v) == [k |-> k, v |-> v]
EmptyDict == <<>>
Keys(d) == {d[i].k : i \in 1..Len(d)}
Has(d, k) == k \in Keys(d)
IndexOfKey(d, k) == CHOOSE i \in 1..Len(d) : d[i].k = k
DictGet(d, k, dflt) == IF Has(d, k) THEN d[IndexOfKey(d, k)].v ELSE dflt
DictPut(d, k, v) ==
    IF Has(d, k)
    THEN [d EXCEPT ![IndexOfKey(d, k)] = Entry(k, v)]
    ELSE Append(d, Entry(k, v))

\* d.update(e): a key of d keeps its position and takes e's value, the new
\* keys of e follow in e's order
DictUpdate(d, e) ==
    [i \in 1..Len(d) |-> Entry(d[i].k, DictGet(e, d[i].k, d[i].v))]
    \o SelectSeq(e, LAMBDA x : ~Has(d, x.k))

InList(x, l) == \E i \in 1..Len(l) : l[i] = x
\* list.index(x): position of the first occurrence (0-based in the code, 1-based here)
ListIndex(l, x) == CHOOSE i \in 1..Len(l) : l[i] = x /\ \A j \in 1..(i - 1) : l[j] # x

(***************************************************************************)
(* Categorical code -> ordinal tables of predict_price.                    *)
(***************************************************************************)
CategoricalFeatures ==
    {"MSZoning", "Neighborhood", "RoofStyle", "BsmtQual", "BsmtExposure",
     "HeatingQC", "CentralAir", "KitchenQual", "FireplaceQu", "GarageType",
     "GarageFinish", "PavedDrive", "SaleCondition"}

mapping(feature) ==
    CASE feature = "MSZoning" ->
           ("C" :> 0 @@ "RM" :> 1 @@ "RH" :> 2 @@ "RL" :> 3 @@ "FV" :> 4)
      [] feature = "Neighborhood" ->
           ("MeadowV" :> 0 @@ "IDOTRR" :> 1 @@ "BrDale" :> 2 @@ "OldTown" :> 3 @@
            "Edwards" :> 4 @@ "BrkSide" :> 5 @@ "Sawyer" :> 6 @@ "Blueste" :> 7 @@
            "SWISU" :> 8 @@ "NAmes" :> 9 @@ "NPkVill" :> 10 @@ "Mitchel" :> 11 @@
            "SawyerW" :> 12 @@ "Gilbert" :> 13 @@ "NWAmes" :> 14 @@ "Blmngtn" :> 15 @@
            "CollgCr" :> 16 @@ "ClearCr" :> 17 @@ "Crawfor" :> 18 @@ "Veenker" :> 19 @@
            "Somerst" :> 20 @@ "Timber" :> 21 @@ "StoneBr" :> 22 @@ "NoRidge" :> 23 @@
            "NridgHt" :> 24)
      [] feature = "RoofStyle" ->
           ("Gable" :> 1 @@ "Hip" :> 2 @@ "Gambrel" :> 3 @@ "Mansard" :> 4 @@
            "Flat" :> 5 @@ "Shed" :> 6)
      [] feature = "BsmtQual" ->
           ("NA" :> 0 @@ "Fa" :> 1 @@ "TA" :> 2 @@ "Gd" :> 3 @@ "Ex" :> 4)
      [] feature = "BsmtExposure" ->
           ("NA" :> 0 @@ "No" :> 1 @@ "Mn" :> 2 @@ "Av" :> 3 @@ "Gd" :> 4)
      [] feature = "HeatingQC" ->
           ("Po" :> 1 @@ "Fa" :> 2 @@ "TA" :> 3 @@ "Gd" :> 4 @@ "Ex" :> 5)
      [] feature = "CentralAir" ->
           ("N" :> 0 @@ "Y" :> 1)
      [] feature = "KitchenQual" ->
           ("Fa" :> 1 @@ "TA" :> 2 @@ "Gd" :> 3 @@ "Ex" :> 4)
      [] feature = "FireplaceQu" ->
           ("NA" :> 0 @@ "Po" :> 1 @@ "Fa" :> 2 @@ "TA" :> 3 @@ "Gd" :> 4 @@ "Ex" :> 5)
      [] feature = "GarageType" ->
           ("NA" :> 0 @@ "Detchd" :> 1 @@ "CarPort" :> 2 @@ "BuiltIn" :> 3 @@ "Attchd" :> 4)
      [] feature = "GarageFinish" ->
           ("NA" :> 0 @@ "Unf" :> 1 @@ "RFn" :> 2 @@ "Fin" :> 3)
      [] feature = "PavedDrive" ->
           ("N" :> 0 @@ "P" :> 1 @@ "Y" :> 2)
      [] feature = "SaleCondition" ->
           ("AdjLand" :> 0 @@ "Abnorml" :> 1 @@ "Alloca" :> 2 @@ "Family" :> 3 @@
            "Normal" :> 4 @@ "Partial" :> 5)

\* second argument of mapping.get(value, <default>) for each attribute
MappingDefault ==
    ("MSZoning" :> 3 @@ "Neighborhood" :> 12 @@ "RoofStyle" :> 1 @@ "BsmtQual" :> 3 @@
     "BsmtExposure" :> 2 @@ "HeatingQC" :> 4 @@ "CentralAir" :> 1 @@ "KitchenQual" :> 3 @@
     "FireplaceQu" :> 3 @@ "GarageType" :> 1 @@ "GarageFinish" :> 2 @@ "PavedDrive" :> 2 @@
     "SaleCondition" :> 4)

(***************************************************************************)
(* float(value): numbers convert, a str converts when it spells a number,  *)
(* any other str raises ValueError and None raises TypeError.              *)
(***************************************************************************)
NumericStrings == ("1710" :> 1710 @@ "7" :> 7 @@ "0" :> 0)

Ok(v) == [ok |-> TRUE, v |-> v, err |-> ""]
Raise(msg) == [ok |-> FALSE, v |-> PyNone, err |-> msg]

\* mapping[value]: indexing raises KeyError on a code the table lacks
MappingIndex(feature, value) ==
    IF value.t = "str" /\ value.s \in DOMAIN mapping(feature)
    THEN Ok(PyInt(mapping(feature)[value.s]))
    ELSE Raise("KeyError")

\* mapping.get(value, default): a key of the table is a str equal to the code
MappingGet(feature, value) ==
    IF value.t = "str" /\ value.s \in DOMAIN mapping(feature)
    THEN Ok(PyInt(mapping(feature)[value.s]))
    ELSE Ok(PyInt(MappingDefault[feature]))

\* a conversion that turns what it cannot read into 0.0
FloatOrZero(value) ==
    CASE IsNumber(value) -> Ok(PyFloat(value.n))
      [] value.t = "str" /\ value.s \in DOMAIN NumericStrings ->
           Ok(PyFloat(NumericStrings[value.s]))
      [] OTHER -> Ok(PyFloat(0))

float(value) ==
    CASE IsNumber(value) -> Ok(PyFloat(value.n))
      [] value.t = "str" /\ value.s \in DOMAIN NumericStrings ->
           Ok(PyFloat(NumericStrings[value.s]))
      [] value.t = "str" /\ value.s \notin DOMAIN NumericStrings ->
           Raise("could not convert string to float")
      [] value.t = "none" ->
           Raise("float() argument must be a string or a number")

(***************************************************************************)
(* create_full_feature_vector                                              *)
(***************************************************************************)
\* the 61 hardcoded entries of default_values, in source order
HardcodedDefaults ==
    <<Entry("LotFrontage", PyFloat(70)), Entry("LotArea", PyFloat(8000)),
      Entry("Street", PyInt(1)), Entry("Alley", PyInt(0)), Entry("LotShape", PyInt(3)),
      Entry("LandContour", PyInt(0)), Entry("Utilities", PyInt(0)), Entry("LotConfig", PyInt(4)),
      Entry("LandSlope", PyInt(0)), Entry("Condition1", PyInt(2)), Entry("Condition2", PyInt(2)),
      Entry("BldgType", PyInt(0)), Entry("HouseStyle", PyInt(5)), Entry("OverallCond", PyInt(5)),
      Entry("YearBuilt", PyInt(30)), Entry("RoofMatl", PyInt(0)), Entry("Exterior1st", PyInt(12)),
      Entry("Exterior2nd", PyInt(12)), Entry("MasVnrType", PyInt(1)),
      Entry("MasVnrArea", PyFloat(100)), Entry("ExterQual", PyInt(3)),
      Entry("ExterCond", PyInt(3)), Entry("Foundation", PyInt(2)), Entry("BsmtCond", PyInt(3)),
      Entry("BsmtFinType1", PyInt(5)), Entry("BsmtFinSF1", PyFloat(400)),
      Entry("BsmtFinType2", PyInt(5)), Entry("BsmtFinSF2", PyFloat(0)),
      Entry("BsmtUnfSF", PyFloat(400)), Entry("TotalBsmtSF", PyFloat(800)),
      Entry("Heating", PyInt(1)), Entry("Electrical", PyInt(4)), Entry("2ndFlrSF", PyFloat(0)),
      Entry("LowQualFinSF", PyFloat(0)), Entry("BsmtHalfBath", PyInt(0)),
      Entry("FullBath", PyInt(2)), Entry("HalfBath", PyInt(0)), Entry("BedroomAbvGr", PyInt(3)),
      Entry("KitchenAbvGr", PyInt(1)), Entry("TotRmsAbvGrd", PyInt(7)),
      Entry("Functional", PyInt(6)), Entry("GarageYrBlt", PyInt(30)),
      Entry("GarageArea", PyFloat(500)), Entry("GarageQual", PyInt(3)),
      Entry("GarageCond", PyInt(3)), Entry("WoodDeckSF", PyFloat(0)),
      Entry("OpenPorchSF", PyFloat(0)), Entry("EnclosedPorch", PyFloat(0)),
      Entry("3SsnPorch", PyFloat(0)), Entry("ScreenPorch", PyFloat(0)),
      Entry("PoolArea", PyFloat(0)), Entry("PoolQC", PyInt(0)), Entry("Fence", PyInt(0)),
      Entry("MiscFeature", PyInt(0)), Entry("MiscVal", PyFloat(0)), Entry("MoSold", PyInt(6)),
      Entry("YrSold", PyInt(2010)), Entry("SaleType", PyInt(8)), Entry("LotFrontagenan", PyInt(0)),
      Entry("MasVnrAreanan", PyInt(0)), Entry("GarageYrBltnan", PyInt(0))>>

\* default_values = {**user_inputs, 'LotFrontage': 70.0, ...}: the caller's
\* entries are written first and the literal entries after them.
\* a default table that also holds an attribute of the hardcoded reduced schema
default_values_with_quality(user_inputs) ==
    DictUpdate(DictUpdate(user_inputs, HardcodedDefaults),
               <<Entry("OverallQual", PyInt(5))>>)

default_values(user_inputs) == DictUpdate(user_inputs, HardcodedDefaults)

\* a fill that gives an absent categorical attribute its encoder default
slot_value_encoder_default(dv, feature) ==
    IF Has(dv, feature) THEN DictGet(dv, feature, PyFloat(0))
    ELSE IF feature \in CategoricalFeatures THEN PyInt(MappingDefault[feature])
    ELSE PyFloat(0)

\* default_values.get(feature, 0.0)
slot_value(dv, feature) == DictGet(dv, feature, PyFloat(0))

\* a vector that holds a slot only for the names default_values knows
create_sparse_feature_vector(sf, user_inputs) ==
    IF ~sf.some
    THEN [ok |-> FALSE, v |-> <<>>, err |-> "'NoneType' object is not iterable"]
    ELSE LET dv == default_values(user_inputs)
             known == SelectSeq(sf.v, LAMBDA name : Has(dv, name))
         IN  [ok |-> TRUE,
              v |-> [i \in 1..Len(known) |-> DictGet(dv, known[i], PyFloat(0))],
              err |-> ""]

\* [default_values.get(feature, 0.0) for feature in self.scaler_features];
\* iterating None raises TypeError.
create_full_feature_vector(sf, user_inputs) ==
    IF ~sf.some
    THEN [ok |-> FALSE, v |-> <<>>, err |-> "'NoneType' object is not iterable"]
    ELSE LET dv == default_values(user_inputs)
         IN  [ok |-> TRUE,
              v |-> [i \in 1..Len(sf.v) |-> slot_value(dv, sf.v[i])],
              err |-> ""]

(***************************************************************************)
(* The encoding loop of predict_price.                                     *)
(***************************************************************************)
\* an iteration body that stores a numeric attribute as it came
EncodeValueNoCoerce(feature, value) ==
    IF feature \in CategoricalFeatures
    THEN MappingGet(feature, value)
    ELSE Ok(value)

\* one iteration body: the value stored for a feature of the reduced schema
EncodeValue(feature, value) ==
    IF feature \in CategoricalFeatures
    THEN MappingGet(feature, value)
    ELSE float(value)

RECURSIVE EncodeLoop(_, _, _)
\* for feature, value in features.items(): ... ; acc is encoded_features so far
EncodeLoop(mf, features, acc) ==
    IF features = <<>> THEN [ok |-> TRUE, v |-> acc, err |-> ""]
    ELSE IF ~mf.some
    THEN [ok |-> FALSE, v |-> acc, err |-> "argument of type 'NoneType' is not iterable"]
    ELSE IF ~InList(Head(features).k, mf.v)
    THEN EncodeLoop(mf, Tail(features), acc)
    ELSE LET r == EncodeValue(Head(features).k, Head(features).v)
         IN  IF r.ok
             THEN EncodeLoop(mf, Tail(features), DictPut(acc, Head(features).k, r.v))
             ELSE [ok |-> FALSE, v |-> acc, err |-> r.err]

\* an encoding that also keeps the numeric entries outside the reduced schema
encoded_features_unfiltered(mf, features) ==
    LET r == EncodeLoop(mf, features, EmptyDict)
    IN  IF ~r.ok THEN r
        ELSE [r EXCEPT !.v = @ \o SelectSeq(features,
                                   LAMBDA e : ~InList(e.k, mf.v) /\ IsNumber(e.v))]

encoded_features(mf, features) == EncodeLoop(mf, features, EmptyDict)

(***************************************************************************)
(* Artifacts on disk and their loading at construction.                    *)
(***************************************************************************)
\* the hardcoded reduced schema of _load_model
FallbackFeatures ==
    <<"MSSubClass", "MSZoning", "Neighborhood", "OverallQual", "YearRemodAdd",
      "RoofStyle", "BsmtQual", "BsmtExposure", "HeatingQC", "CentralAir", "1stFlrSF",
      "GrLivArea", "BsmtFullBath", "KitchenQual", "Fireplaces", "FireplaceQu",
      "GarageType", "GarageFinish", "GarageCars", "PavedDrive", "SaleCondition">>

\* the 79 names of _get_default_features followed by the three indicator
\* columns of the default table: a scaler fitted on the full schema
FullSchema ==
    <<"MSSubClass", "MSZoning", "LotFrontage", "LotArea", "Street", "Alley",
      "LotShape", "LandContour", "Utilities", "LotConfig", "LandSlope",
      "Neighborhood", "Condition1", "Condition2", "BldgType", "HouseStyle",
      "OverallQual", "OverallCond", "YearBuilt", "YearRemodAdd", "RoofStyle",
      "RoofMatl", "Exterior1st", "Exterior2nd", "MasVnrType", "MasVnrArea",
      "ExterQual", "ExterCond", "Foundation", "BsmtQual", "BsmtCond", "BsmtExposure",
      "BsmtFinType1", "BsmtFinSF1", "BsmtFinType2", "BsmtFinSF2", "BsmtUnfSF",
      "TotalBsmtSF", "Heating", "HeatingQC", "CentralAir", "Electrical", "1stFlrSF",
      "2ndFlrSF", "LowQualFinSF", "GrLivArea", "BsmtFullBath", "BsmtHalfBath",
      "FullBath", "HalfBath", "BedroomAbvGr", "KitchenAbvGr", "KitchenQual",
      "TotRmsAbvGrd", "Functional", "Fireplaces", "FireplaceQu", "GarageType",
      "GarageYrBlt", "GarageFinish", "GarageCars", "GarageArea", "GarageQual",
      "GarageCond", "PavedDrive", "WoodDeckSF", "OpenPorchSF", "EnclosedPorch",
      "3SsnPorch", "ScreenPorch", "PoolArea", "PoolQC", "Fence", "MiscFeature",
      "MiscVal", "MoSold", "YrSold", "SaleType", "SaleCondition", "LotFrontagenan",
      "MasVnrAreanan", "GarageYrBltnan">>

\* A file is missing, unreadable (joblib.load raises) or holds an object.
\* A model object records: names (feature_names_in_ or absent), n_in (the
\* input width it was fitted on), estimators (estimators_ or absent, one
\* offset per tree), importances (feature_importances_ or absent).
\* a member of estimators_ that is not an estimator (a boosted ensemble
\* keeps rows of trees): tree.predict raises AttributeError
NoPredict == 0 - 1

ModelObject(names, n_in, estimators, importances) ==
    [state |-> "ok", names |-> names, n_in |-> n_in,
     estimators |-> estimators, importances |-> importances]
MissingModel == [state |-> "missing", names |-> None, n_in |-> 0,
                 estimators |-> None, importances |-> None]
CorruptModel == [MissingModel EXCEPT !.state = "corrupt"]

\* a model fitted on a frame that holds attributes of the default table too
MixedSchema == <<"OverallQual", "GrLivArea", "LotArea", "YearBuilt", "MSZoning">>
\* the contents of the two feature-list files, when they can be read
CsvSchema1 == <<"OverallQual", "GrLivArea", "CentralAir">>
CsvSchema2 == <<"GrLivArea", "OverallQual", "LotArea">>

Importances(n) == [i \in 1..n |-> ((i * 7) % 5) + 1]

ModelFiles ==
    {MissingModel, CorruptModel,
     ModelObject(Some(FallbackFeatures), Len(FallbackFeatures), Some(<<0, 1, 3>>),
                 Some(Importances(Len(FallbackFeatures)))),
     ModelObject(Some(MixedSchema), Len(MixedSchema), Some(<<1, 1>>),
                 Some(Importances(Len(MixedSchema)))),
     ModelObject(None, Len(FallbackFeatures), None, None),
     ModelObject(Some(FallbackFeatures), Len(FallbackFeatures), Some(<<0, NoPredict>>),
                 None),
     ModelObject(None, Len(CsvSchema1), Some(<<0, 2>>),
                 Some(Importances(Len(CsvSchema1))))}

CsvFile(ok, rows) == [ok |-> ok, rows |-> rows]
\* a feature-list file that holds its header line and no row
EmptyCsv == CsvFile(TRUE, <<>>)
CsvFiles1 == {CsvFile(FALSE, <<>>), CsvFile(TRUE, CsvSchema1), EmptyCsv}
CsvFiles2 == {CsvFile(FALSE, <<>>), CsvFile(TRUE, CsvSchema2)}

\* A scaler object records names (feature_names_in_ or absent).
ScalerObject(names) == [state |-> "ok", names |-> names]
MissingScaler == [state |-> "missing", names |-> None]
CorruptScaler == [state |-> "corrupt", names |-> None]
\* a scaler fitted on a frame that lacks most of the reduced schema
ShortSchema == <<"LotArea", "OverallQual", "GrLivArea">>

ScalerFiles ==
    {MissingScaler, CorruptScaler, ScalerObject(None),
     ScalerObject(Some(FullSchema)), ScalerObject(Some(ShortSchema))}

\* the feature-list files are varied under the models that fall back to
\* them and under one model that records its own names; the file without
\* rows is varied under the smaller model that falls back to it
Disks ==
    {d \in [model_file : ModelFiles, scaler_file : ScalerFiles,
            csv1 : CsvFiles1, csv2 : CsvFiles2] :
        /\ \/ d.model_file.state = "ok" /\ d.model_file.n_in # Len(FallbackFeatures)
           \/ ~d.csv2.ok /\ (d.csv1.ok => d.model_file.state = "ok" /\ ~d.model_file.names.some)
        /\ d.csv1 = EmptyCsv =>
              /\ d.model_file.state = "ok"
              /\ ~d.model_file.names.some
              /\ d.model_file.n_in # Len(FallbackFeatures)}

\* self.model is None or the loaded object
NoObject == [loaded |-> FALSE, obj |-> MissingModel]
Loaded(obj) == [loaded |-> TRUE, obj |-> obj]
NoScaler == [loaded |-> FALSE, obj |-> MissingScaler]
LoadedScaler(obj) == [loaded |-> TRUE, obj |-> obj]

\* _load_model: the pair (self.model, self.model_features) it leaves
_load_model(d) ==
    IF d.model_file.state # "ok"
    THEN [model |-> NoObject, model_features |-> None]
    ELSE [model |-> Loaded(d.model_file),
          model_features |->
              IF d.model_file.names.some THEN Some(d.model_file.names.v)
              ELSE IF d.csv1.ok THEN Some(d.csv1.rows)
              ELSE IF d.csv2.ok THEN Some(d.csv2.rows)
              ELSE Some(FallbackFeatures)]

\* a loader that keeps the names of a scaler and drops the object
_load_scaler_names_only(d) ==
    IF d.scaler_file.state # "ok"
    THEN [scaler |-> NoScaler, scaler_features |-> None]
    ELSE [scaler |-> NoScaler,
          scaler_features |->
              IF d.scaler_file.names.some THEN Some(d.scaler_file.names.v)
              ELSE None]

\* _load_scaler: the pair (self.scaler, self.scaler_features) it leaves
_load_scaler(d) ==
    IF d.scaler_file.state # "ok"
    THEN [scaler |-> NoScaler, scaler_features |-> None]
    ELSE [scaler |-> LoadedScaler(d.scaler_file),
          scaler_features |->
              IF d.scaler_file.names.some THEN Some(d.scaler_file.names.v)
              ELSE None]

(***************************************************************************)
(* Normalization, model invocation and the log-scale round trip.           *)
(***************************************************************************)
RECURSIVE SumN(_)
SumN(x) == IF x = <<>> THEN 0 ELSE Head(x).n + SumN(Tail(x))

\* scaler.transform(full_df): MinMaxScaler computes X * scale_ + min_ per
\* column; the fitted scale_ is 2 and min_ the column position here.
transform(sc, full_vector) ==
    IF ~sc.loaded
    THEN [ok |-> FALSE, v |-> <<>>, err |-> "'NoneType' object has no attribute 'transform'"]
    ELSE [ok |-> TRUE,
          v |-> [i \in 1..Len(full_vector) |-> PyFloat(full_vector[i].n * 2 + i)],
          err |-> ""]

\* log-scale outputs a fitted regressor can produce, in thousandths
LogLevels == <<11002, 11918, 12000, 12899, 13000>>

\* estimator.predict(X)[0] for a regressor with the given offset: raises when
\* X has another width than the one the estimator was fitted on
predict(n_in, offset, x) ==
    IF Len(x) # n_in
    THEN [ok |-> FALSE, v |-> 0, err |-> "X has a different number of features than expected"]
    ELSE [ok |-> TRUE, v |-> LogLevels[((SumN(x) + offset) % Len(LogLevels)) + 1], err |-> ""]

\* np.exp on the log levels, to the nearest thousand dollars
exp(l) ==
    CASE l = 11002 -> 60000
      [] l = 11918 -> 150000
      [] l = 12000 -> 163000
      [] l = 12899 -> 400000
      [] l = 13000 -> 442000

RECURSIVE ISqrt(_, _, _)
\* largest r in lo..hi with r * r <= x
ISqrt(x, lo, hi) ==
    IF lo >= hi THEN lo
    ELSE LET mid == (lo + hi + 1) \div 2
         IN  IF mid * mid <= x THEN ISqrt(x, mid, hi) ELSE ISqrt(x, lo, mid - 1)

RECURSIVE SumSeq(_)
SumSeq(x) == IF x = <<>> THEN 0 ELSE Head(x) + SumSeq(Tail(x))

\* np.std(predictions): population standard deviation, of prices that are
\* whole thousands
std(ps) ==
    LET q == [i \in 1..Len(ps) |-> ps[i] \div 1000]
        n == Len(ps)
        s1 == SumSeq(q)
        s2 == SumSeq([i \in 1..n |-> q[i] * q[i]])
    IN  (1000 * ISqrt(n * s2 - s1 * s1, 0, 2000)) \div n

Max(a, b) == IF a >= b THEN a ELSE b
Min(a, b) == IF a <= b THEN a ELSE b

(***************************************************************************)
(* The record of one call: which operation ran, on what, and what came     *)
(* back.  An info map is its key set plus the values of its keys (the text *)
(* of formatted_prediction is not carried).                                *)
(***************************************************************************)
NoInfo ==
    [keys |-> {}, prediction |-> 0, confidence |-> "", input_features_count |-> 0,
     missing_features_count |-> 0, category |-> "", category_color |-> "",
     std_deviation |-> 0, lower |-> 0, upper |-> 0, error |-> ""]

NoModelInfo ==
    [status |-> "", feature_count |-> 0, model_features |-> None,
     scaler_features_count |-> 0]

NoCall ==
    [op |-> "none", features |-> <<>>, raised |-> FALSE, exc |-> "", price |-> 0,
     info |-> NoInfo, steps |-> <<>>, encoded |-> <<>>, full_vector |-> <<>>,
     model_input |-> <<>>, valid |-> FALSE, errors |-> <<>>, top_n |-> 0,
     importance |-> None, model_info |-> NoModelInfo]

(***************************************************************************)
(* _get_prediction_info                                                    *)
(***************************************************************************)
\* the confidence label of the info map
ConfidenceLabel(user_inputs) == "Medium"

\* the try block over self.model.estimators_: the exponentiated per-tree
\* predictions, or a failure that the bare except swallows
TreePrices(m, feature_array) ==
    LET trees == m.obj.estimators.v
        raw == [i \in 1..Len(trees) |->
                  IF trees[i] = NoPredict
                  THEN [ok |-> FALSE, v |-> 0, err |-> "object has no attribute 'predict'"]
                  ELSE predict(m.obj.n_in, trees[i], feature_array)]
    IN  IF \E i \in 1..Len(trees) : ~raw[i].ok
        THEN [ok |-> FALSE, v |-> <<>>]
        ELSE [ok |-> TRUE, v |-> [i \in 1..Len(trees) |-> exp(raw[i].v)]]

\* thresholds that belong to the outer categories
price_category_inclusive(prediction) ==
    IF prediction <= 150000
    THEN [category |-> "Budget (Under $150K)", category_color |-> "#e67e22"]
    ELSE IF prediction >= 400000
    THEN [category |-> "Premium ($400K+)", category_color |-> "#9b59b6"]
    ELSE [category |-> "Mid-range ($150K-$400K)", category_color |-> "#27ae60"]

\* the if / elif / else over the price
price_category(prediction) ==
    IF prediction < 150000
    THEN [category |-> "Budget (Under $150K)", category_color |-> "#e67e22"]
    ELSE IF prediction > 400000
    THEN [category |-> "Premium ($400K+)", category_color |-> "#9b59b6"]
    ELSE [category |-> "Mid-range ($150K-$400K)", category_color |-> "#27ae60"]

\* an interval whose lower end is not clipped at 0
_get_prediction_info_unclipped(m, mf, feature_array, prediction, user_inputs) ==
    LET base == [NoInfo EXCEPT
                   !.keys = {"prediction", "formatted_prediction", "confidence",
                             "input_features_count", "missing_features_count",
                             "category", "category_color"},
                   !.prediction = prediction,
                   !.confidence = ConfidenceLabel(user_inputs),
                   !.input_features_count = Len(user_inputs),
                   !.missing_features_count = Len(mf.v) - Len(user_inputs),
                   !.category = price_category(prediction).category,
                   !.category_color = price_category(prediction).category_color]
    IN  IF ~m.obj.estimators.some THEN base
        ELSE LET tp == TreePrices(m, feature_array)
             IN  IF ~tp.ok THEN base
                 ELSE LET std_dev == std(tp.v)
                      IN  [base EXCEPT
                             !.keys = @ \cup {"std_deviation", "confidence_interval"},
                             !.std_deviation = std_dev,
                             !.lower = prediction - (196 * std_dev) \div 100,
                             !.upper = prediction + (196 * std_dev) \div 100]

\* _get_prediction_info
_get_prediction_info(m, mf, feature_array, prediction, user_inputs) ==
    LET base == [NoInfo EXCEPT
                   !.keys = {"prediction", "formatted_prediction", "confidence",
                             "input_features_count", "missing_features_count",
                             "category", "category_color"},
                   !.prediction = prediction,
                   !.confidence = ConfidenceLabel(user_inputs),
                   !.input_features_count = Len(user_inputs),
                   !.missing_features_count = Len(mf.v) - Len(user_inputs),
                   !.category = price_category(prediction).category,
                   !.category_color = price_category(prediction).category_color]
    IN  IF ~m.obj.estimators.some THEN base
        ELSE LET tp == TreePrices(m, feature_array)
             IN  IF ~tp.ok THEN base
                 ELSE LET std_dev == std(tp.v)
                      IN  [base EXCEPT
                             !.keys = @ \cup {"std_deviation", "confidence_interval"},
                             !.std_deviation = std_dev,
                             !.lower = Max(0, prediction - (196 * std_dev) \div 100),
                             !.upper = prediction + (196 * std_dev) \div 100]

(***************************************************************************)
(* predict_price                                                           *)
(***************************************************************************)
\* a selection that takes the first slots of the scaled vector, by position
ScaledInputByPosition(sc, mf, sf, encoded) ==
    LET fv == create_full_feature_vector(sf, encoded)
        tr == transform(sc, fv.v)
    IN  IF ~tr.ok
        THEN [ok |-> FALSE, v |-> <<>>, err |-> tr.err, full_vector |-> fv.v,
              steps |-> <<"assemble", "transform">>]
        ELSE IF ~mf.some
        THEN [ok |-> FALSE, v |-> <<>>, err |-> "'NoneType' object is not iterable",
              full_vector |-> fv.v, steps |-> <<"assemble", "transform", "select">>]
        ELSE IF \E i \in 1..Len(mf.v) : ~InList(mf.v[i], sf.v)
        THEN [ok |-> FALSE, v |-> <<>>, err |-> "name is not in list",
              full_vector |-> fv.v, steps |-> <<"assemble", "transform", "select">>]
        ELSE [ok |-> TRUE,
              v |-> [i \in 1..Len(mf.v) |-> tr.v[i]],
              err |-> "", full_vector |-> fv.v,
              steps |-> <<"assemble", "transform", "select">>]

\* Method 1: full vector, scaler.transform, selection of the model's slots
ScaledInput(sc, mf, sf, encoded) ==
    LET fv == create_full_feature_vector(sf, encoded)
        tr == transform(sc, fv.v)
    IN  IF ~tr.ok
        THEN [ok |-> FALSE, v |-> <<>>, err |-> tr.err, full_vector |-> fv.v,
              steps |-> <<"assemble", "transform">>]
        ELSE IF ~mf.some
        THEN [ok |-> FALSE, v |-> <<>>, err |-> "'NoneType' object is not iterable",
              full_vector |-> fv.v, steps |-> <<"assemble", "transform", "select">>]
        ELSE IF \E i \in 1..Len(mf.v) : ~InList(mf.v[i], sf.v)
        THEN [ok |-> FALSE, v |-> <<>>, err |-> "name is not in list",
              full_vector |-> fv.v, steps |-> <<"assemble", "transform", "select">>]
        ELSE [ok |-> TRUE,
              v |-> [i \in 1..Len(mf.v) |-> tr.v[ListIndex(sf.v, mf.v[i])]],
              err |-> "", full_vector |-> fv.v,
              steps |-> <<"assemble", "transform", "select">>]

\* a raw input that holds only the names the caller supplied
RawInputSupplied(mf, encoded) ==
    IF ~mf.some
    THEN [ok |-> FALSE, v |-> <<>>, err |-> "'NoneType' object is not iterable",
          full_vector |-> <<>>, steps |-> <<"raw">>]
    ELSE LET supplied == SelectSeq(mf.v, LAMBDA name : Has(encoded, name))
         IN  [ok |-> TRUE,
              v |-> [i \in 1..Len(supplied) |-> DictGet(encoded, supplied[i], PyInt(0))],
              err |-> "", full_vector |-> <<>>, steps |-> <<"raw">>]

\* a raw input that fills an absent name from the hardcoded default table
RawInputDefaults(mf, encoded) ==
    IF ~mf.some
    THEN [ok |-> FALSE, v |-> <<>>, err |-> "'NoneType' object is not iterable",
          full_vector |-> <<>>, steps |-> <<"raw">>]
    ELSE LET dv == default_values(encoded)
         IN  [ok |-> TRUE,
              v |-> [i \in 1..Len(mf.v) |-> DictGet(dv, mf.v[i], PyInt(0))],
              err |-> "", full_vector |-> <<>>, steps |-> <<"raw">>]

\* Method 2: [encoded_features.get(f, 0) for f in self.model_features]
RawInput(mf, encoded) ==
    IF ~mf.some
    THEN [ok |-> FALSE, v |-> <<>>, err |-> "'NoneType' object is not iterable",
          full_vector |-> <<>>, steps |-> <<"raw">>]
    ELSE [ok |-> TRUE,
          v |-> [i \in 1..Len(mf.v) |-> DictGet(encoded, mf.v[i], PyInt(0))],
          err |-> "", full_vector |-> <<>>, steps |-> <<"raw">>]

\* an except branch that reports the zero price inside the info as well
ErrorResultWithPrediction(call, msg) ==
    [call EXCEPT !.price = 0,
                 !.info = [NoInfo EXCEPT !.keys = {"error", "prediction"},
                                         !.error = msg]]

\* the except branch: return 0.0, {'error': str(e)}
ErrorResult(call, msg) ==
    [call EXCEPT !.price = 0,
                 !.info = [NoInfo EXCEPT !.keys = {"error"}, !.error = msg]]

\* a guard that lets every call through
ModelNeverUnavailable(m) == FALSE

\* if not self.model
ModelUnavailable(m) == ~m.loaded

\* a price left on the log scale
PriceOnLogScale(prediction_log) == prediction_log

\* prediction = np.exp(prediction_log)
PriceFromLog(prediction_log) == exp(prediction_log)

predict_price(m, sc, mf, sf, features) ==
    LET call == [NoCall EXCEPT !.op = "predict_price", !.features = features]
    IN  IF ModelUnavailable(m)
        THEN [call EXCEPT !.raised = TRUE, !.exc = "Model not loaded"]
        ELSE
        LET enc == encoded_features(mf, features)
            c1 == [call EXCEPT !.steps = <<"encode">>, !.encoded = enc.v]
        IN  IF ~enc.ok THEN ErrorResult(c1, enc.err)
            ELSE
            LET mi == IF Truthy(sf) THEN ScaledInput(sc, mf, sf, enc.v)
                      ELSE RawInput(mf, enc.v)
                c2 == [c1 EXCEPT !.steps = @ \o mi.steps, !.full_vector = mi.full_vector,
                                 !.model_input = mi.v]
            IN  IF ~mi.ok THEN ErrorResult(c2, mi.err)
                ELSE
                LET pl == predict(m.obj.n_in, 0, mi.v)
                    c3 == [c2 EXCEPT !.steps = @ \o <<"predict">>]
                IN  IF ~pl.ok THEN ErrorResult(c3, pl.err)
                    ELSE [c3 EXCEPT
                            !.steps = @ \o <<"info">>,
                            !.price = PriceFromLog(pl.v),
                            !.info = _get_prediction_info(m, mf, mi.v,
                                                          PriceFromLog(pl.v), enc.v)]

(***************************************************************************)
(* validate_input                                                          *)
(***************************************************************************)
\* Python orders str values by code point: digits, upper case, lower case
StrRank == ("" :> 0 @@ "0" :> 1 @@ "1710" :> 2 @@ "7" :> 3 @@ "FV" :> 4 @@
            "RL" :> 5 @@ "ZZ" :> 6 @@ "abc" :> 7)

\* a < b: numbers and strings compare among themselves, any other pairing
\* raises TypeError
PyLess(a, b) ==
    CASE IsNumber(a) /\ IsNumber(b) -> [ok |-> TRUE, v |-> a.n < b.n]
      [] a.t = "str" /\ b.t = "str" -> [ok |-> TRUE, v |-> StrRank[a.s] < StrRank[b.s]]
      [] OTHER -> [ok |-> FALSE, v |-> FALSE]

numeric_features == <<"LotArea", "GrLivArea", "YearBuilt", "OverallQual", "OverallCond">>

RECURSIVE NumericErrors(_, _)
\* the loop over numeric_features; isinstance short-circuits the comparison
NumericErrors(features, names) ==
    IF names = <<>> THEN <<>>
    ELSE LET f == Head(names)
             value == DictGet(features, f, PyNone)
         IN  (IF Has(features, f) /\ (~IsNumber(value) \/ value.n < 0)
              THEN <<f \o " must be a positive number">>
              ELSE <<>>) \o NumericErrors(features, Tail(names))

validate_input(features) ==
    LET call == [NoCall EXCEPT !.op = "validate_input", !.features = features]
        e1 == NumericErrors(features, numeric_features)
        both == Has(features, "YearBuilt") /\ Has(features, "YearRemodAdd")
        cmp1 == PyLess(DictGet(features, "YearRemodAdd", PyNone),
                       DictGet(features, "YearBuilt", PyNone))
        e2 == IF both /\ cmp1.ok /\ cmp1.v
              THEN e1 \o <<"Renovation year cannot be before construction year">>
              ELSE e1
        cmp2 == PyLess(PyInt(10000), DictGet(features, "GrLivArea", PyNone))
        e3 == IF Has(features, "GrLivArea") /\ cmp2.ok /\ cmp2.v
              THEN e2 \o <<"Living area seems unusually large (>10,000 sq ft)">>
              ELSE e2
    IN  IF both /\ ~cmp1.ok
        THEN [call EXCEPT !.raised = TRUE, !.exc = "'<' not supported between instances"]
        ELSE IF Has(features, "GrLivArea") /\ ~cmp2.ok
        THEN [call EXCEPT !.raised = TRUE, !.exc = "'>' not supported between instances"]
        ELSE [call EXCEPT !.valid = (Len(e3) = 0), !.errors = e3]

(***************************************************************************)
(* get_feature_importance and get_model_info                               *)
(***************************************************************************)
RECURSIVE ZipDict(_, _, _)
\* dict(zip(names, scores)): stops at the shorter list, a repeated name keeps
\* its first position and its last score
ZipDict(names, scores, acc) ==
    IF names = <<>> \/ scores = <<>> THEN acc
    ELSE ZipDict(Tail(names), Tail(scores), DictPut(acc, Head(names), Head(scores)))

RECURSIVE InsertDesc(_, _)
\* insertion behind every entry whose score is not smaller (stable)
InsertDesc(sorted, e) ==
    IF sorted = <<>> THEN <<e>>
    ELSE IF Head(sorted).v >= e.v THEN <<Head(sorted)>> \o InsertDesc(Tail(sorted), e)
    ELSE <<e>> \o sorted

RECURSIVE SortDesc(_, _)
\* sorted(items, key=score, reverse=True)
SortDesc(items, acc) ==
    IF items = <<>> THEN acc ELSE SortDesc(Tail(items), InsertDesc(acc, Head(items)))

\* a result that keeps the order of the reduced schema
get_feature_importance_unsorted(m, mf, top_n) ==
    LET call == [NoCall EXCEPT !.op = "get_feature_importance", !.top_n = top_n]
    IN  IF ~m.loaded \/ ~m.obj.importances.some THEN call
        ELSE IF ~Truthy(mf) THEN call
        ELSE LET feature_importance == ZipDict(mf.v, m.obj.importances.v, EmptyDict)
             IN  [call EXCEPT !.importance =
                     Some(SubSeq(feature_importance, 1,
                                 Min(top_n, Len(feature_importance))))]

get_feature_importance(m, mf, top_n) ==
    LET call == [NoCall EXCEPT !.op = "get_feature_importance", !.top_n = top_n]
    IN  IF ~m.loaded \/ ~m.obj.importances.some THEN call
        ELSE IF ~Truthy(mf) THEN call
        ELSE LET sorted_features ==
                     SortDesc(ZipDict(mf.v, m.obj.importances.v, EmptyDict), <<>>)
             IN  [call EXCEPT !.importance =
                     Some(SubSeq(sorted_features, 1, Min(top_n, Len(sorted_features))))]

\* a report whose status follows the scaler instead of the model
get_model_info_by_scaler(m, mf, sf) ==
    [NoCall EXCEPT
       !.op = "get_model_info",
       !.model_info = [status |-> IF Truthy(sf) THEN "Loaded" ELSE "Not Loaded",
                       feature_count |-> IF Truthy(mf) THEN Len(mf.v) ELSE 0,
                       model_features |-> mf,
                       scaler_features_count |-> IF Truthy(sf) THEN Len(sf.v) ELSE 0]]

get_model_info(m, mf, sf) ==
    [NoCall EXCEPT
       !.op = "get_model_info",
       !.model_info = [status |-> IF m.loaded THEN "Loaded" ELSE "Not Loaded",
                       feature_count |-> IF Truthy(mf) THEN Len(mf.v) ELSE 0,
                       model_features |-> mf,
                       scaler_features_count |-> IF Truthy(sf) THEN Len(sf.v) ELSE 0]]

(***************************************************************************)
(* Inputs of the calls.                                                    *)
(***************************************************************************)
MaxSupplied == 16
MaxProbePrefix == 12
MaxTopN == 6

\* the entries of get_sample_input that belong to the hardcoded reduced schema
SampleEntries ==
    <<Entry("MSSubClass", PyInt(60)), Entry("MSZoning", PyStr("RL")),
      Entry("Neighborhood", PyStr("CollgCr")), Entry("OverallQual", PyInt(7)),
      Entry("YearRemodAdd", PyInt(2003)), Entry("RoofStyle", PyStr("Gable")),
      Entry("BsmtQual", PyStr("Gd")), Entry("BsmtExposure", PyStr("No")),
      Entry("HeatingQC", PyStr("Ex")), Entry("CentralAir", PyStr("Y")),
      Entry("1stFlrSF", PyInt(856)), Entry("GrLivArea", PyInt(1710)),
      Entry("BsmtFullBath", PyInt(1)), Entry("KitchenQual", PyStr("Gd")),
      Entry("Fireplaces", PyInt(0)), Entry("FireplaceQu", PyStr("NA")),
      Entry("GarageType", PyStr("Attchd")), Entry("GarageFinish", PyStr("RFn")),
      Entry("GarageCars", PyInt(2)), Entry("PavedDrive", PyStr("Y")),
      Entry("SaleCondition", PyStr("Normal"))>>

Prefix(k) == SubSeq(SampleEntries, 1, Min(k, Len(SampleEntries)))

\* single entries a caller may add to or change in its map
Probes ==
    {Entry("LotArea", PyInt(9000)), Entry("LotArea", PyStr("abc")),
     Entry("GrLivArea", PyStr("abc")), Entry("GrLivArea", PyNone),
     Entry("GrLivArea", PyStr("1710")), Entry("GrLivArea", PyInt(20000)),
     Entry("MSZoning", PyInt(3)), Entry("OverallQual", PyInt(0 - 1)),
     Entry("OverallQual", PyStr("7")), Entry("YearBuilt", PyInt(2010)),
     Entry("YearBuilt", PyStr("abc")), Entry("YearRemodAdd", PyInt(2005)),
     Entry("YearRemodAdd", PyInt(2010))}

\* second entries that the rules of validate_input look at
ValidationProbes ==
    {p \in Probes : p.k \in {"YearBuilt", "YearRemodAdd", "GrLivArea"}}

UnknownCodes == {"ZZ", "", "Typ"}

\* every categorical attribute with every code of its table and the codes
\* that no table holds
CategoricalProbes ==
    UNION {{Entry(c, PyStr(code)) : code \in (DOMAIN mapping(c)) \cup UnknownCodes} :
            c \in CategoricalFeatures}

\* a probe is put into the empty map and into a map that may hold its key
ProbePrefixes == {0, MaxProbePrefix}

Inputs ==
    {Prefix(k) : k \in 0..MaxSupplied}
    \cup {DictPut(Prefix(k), p.k, p.v) : k \in ProbePrefixes, p \in Probes}
    \cup {DictPut(Prefix(k), p.k, p.v) : k \in ProbePrefixes, p \in CategoricalProbes}
    \cup {DictPut(DictPut(Prefix(k), p.k, p.v), q.k, q.v) :
            k \in ProbePrefixes, p \in Probes, q \in ValidationProbes}

\* reduced schemas under which a caller may have encoded its map
EncodingSchemas == {FallbackFeatures, MixedSchema, CsvSchema2}

\* the encoded maps a caller may pass to create_full_feature_vector
EncodedInputs ==
    {encoded_features(Some(schema), features).v :
        schema \in EncodingSchemas,
        features \in {f \in Inputs : \A i \in 1..Len(f) : f[i].v.t # "none" /\
                          (f[i].v.t = "str" /\ f[i].k \notin CategoricalFeatures
                              => f[i].v.s \in DOMAIN NumericStrings)}}

(***************************************************************************)
(* The predictor: construction and the public operations.                  *)
(***************************************************************************)
\* the requests that share the one cached predictor
MaxRequests == 2
\* validate_input calls counted in a run of the shared predictor
MaxValidations == 1

Requests == 1..MaxRequests
IdleRequest == [pc |-> "idle", call |-> NoCall]

\* what the prediction page shows in its confidence card; nothing yet
NoPage ==
    [shown |-> FALSE, feature_count |-> 0, confidence_text |-> "",
     confidence_factor |-> 0, lower_bound |-> 0, upper_bound |-> 0]

Init ==
    /\ disk \in Disks
    /\ model = _load_model(disk).model
    /\ model_features = _load_model(disk).model_features
    /\ scaler = _load_scaler(disk).scaler
    /\ scaler_features = _load_scaler(disk).scaler_features
    /\ pc = "idle"
    /\ last = NoCall
    /\ reqs = [r \in Requests |-> IdleRequest]
    /\ validated = 0
    /\ page = NoPage

PredictPrice ==
    /\ pc = "idle"
    /\ pc' = "returned"
    /\ \E features \in Inputs :
          last' = predict_price(model, scaler, model_features, scaler_features, features)
    /\ UNCHANGED <<disk, model, scaler, model_features, scaler_features,
                   reqs, validated, page>>

ValidateInput ==
    /\ pc = "idle"
    /\ pc' = "returned"
    /\ \E features \in Inputs : last' = validate_input(features)
    /\ UNCHANGED <<disk, model, scaler, model_features, scaler_features,
                   reqs, validated, page>>

GetFeatureImportance ==
    /\ pc = "idle"
    /\ pc' = "returned"
    /\ \E top_n \in 0..MaxTopN :
          last' = get_feature_importance(model, model_features, top_n)
    /\ UNCHANGED <<disk, model, scaler, model_features, scaler_features,
                   reqs, validated, page>>

GetModelInfo ==
    /\ pc = "idle"
    /\ pc' = "returned"
    /\ last' = get_model_info(model, model_features, scaler_features)
    /\ UNCHANGED <<disk, model, scaler, model_features, scaler_features,
                   reqs, validated, page>>

\* a direct call of create_full_feature_vector with an encoded map
CreateFullFeatureVector ==
    /\ pc = "idle"
    /\ pc' = "returned"
    /\ \E user_inputs \in EncodedInputs :
          LET fv == create_full_feature_vector(scaler_features, user_inputs)
          IN  last' = [NoCall EXCEPT !.op = "create_full_feature_vector",
                                    !.encoded = user_inputs,
                                    !.raised = ~fv.ok,
                                    !.exc = fv.err,
                                    !.full_vector = fv.v]
    /\ UNCHANGED <<disk, model, scaler, model_features, scaler_features,
                   reqs, validated, page>>

\* the caller takes the result; the predictor is ready for the next call
Return ==
    /\ pc = "returned"
    /\ pc' = "idle"
    /\ last' = NoCall
    /\ UNCHANGED <<disk, model, scaler, model_features, scaler_features,
                   reqs, validated, page>>

Next ==
    \/ PredictPrice
    \/ ValidateInput
    \/ GetFeatureImportance
    \/ GetModelInfo
    \/ CreateFullFeatureVector
    \/ Return

Spec == Init /\ [][Next]_vars

(***************************************************************************)
(* Several requests on the one predictor that app.py caches.  A request    *)
(* runs predict_price statement by statement, with its locals in its own   *)
(* record; the other requests may run between any two of its steps.        *)
(***************************************************************************)
\* maps the requests send: one that validate_input rejects and predict_price
\* accepts, a valid one, and one whose encoding fails
ServedInputs ==
    {<<Entry("YearBuilt", PyInt(2010)), Entry("YearRemodAdd", PyInt(2005))>>,
     Prefix(MaxProbePrefix),
     <<Entry("GrLivArea", PyStr("abc"))>>}

ServedDisks ==
    {d \in Disks :
        /\ ~d.csv1.ok /\ ~d.csv2.ok
        /\ d.model_file.state = "ok" => d.model_file.names.some
        /\ d.model_file.state # "corrupt"
        /\ d.scaler_file \in {MissingScaler, ScalerObject(Some(FullSchema))}}

ServingInit ==
    /\ disk \in ServedDisks
    /\ model = _load_model(disk).model
    /\ model_features = _load_model(disk).model_features
    /\ scaler = _load_scaler(disk).scaler
    /\ scaler_features = _load_scaler(disk).scaler_features
    /\ pc = "idle"
    /\ last = NoCall
    /\ reqs = [r \in Requests |-> IdleRequest]
    /\ validated = 0
    /\ page = NoPage

\* request r moves to pc with the call record c
Move(r, to, c) == reqs' = [reqs EXCEPT ![r] = [pc |-> to, call |-> c]]

\* an encoded map kept in one place for all requests: a request between
\* encoding and input building finds the map of the highest such request
SharedEncoded(rs, r) ==
    LET waiting == {q \in DOMAIN rs : rs[q].pc = "encoded"}
    IN  rs[CHOOSE q \in waiting : \A p \in waiting : q >= p].call.encoded

\* encoded_features is a local of the call
OwnEncoded(rs, r) == rs[r].call.encoded

\* request r enters predict_price
Call(r) ==
    /\ reqs[r].pc = "idle"
    /\ \E features \in ServedInputs :
          Move(r, "called", [NoCall EXCEPT !.op = "predict_price", !.features = features])
    /\ UNCHANGED <<disk, model, scaler, model_features, scaler_features, pc, last,
                   validated, page>>

\* an encoding step that refuses a map validate_input has rejected, once
\* validate_input has been called
EncodeIfValid(r) ==
    /\ reqs[r].pc = "called"
    /\ LET c == reqs[r].call
       IN  IF ModelUnavailable(model)
           THEN Move(r, "done", [c EXCEPT !.raised = TRUE, !.exc = "Model not loaded"])
           ELSE IF validated > 0 /\ ~validate_input(c.features).valid
           THEN Move(r, "done", ErrorResult([c EXCEPT !.steps = <<"encode">>],
                                            "invalid input"))
           ELSE
           LET enc == encoded_features(model_features, c.features)
               c1 == [c EXCEPT !.steps = <<"encode">>, !.encoded = enc.v]
           IN  IF ~enc.ok THEN Move(r, "done", ErrorResult(c1, enc.err))
               ELSE Move(r, "encoded", c1)
    /\ UNCHANGED <<disk, model, scaler, model_features, scaler_features, pc, last,
                   validated, page>>

\* the model guard and the encoding loop
Encode(r) ==
    /\ reqs[r].pc = "called"
    /\ LET c == reqs[r].call
       IN  IF ModelUnavailable(model)
           THEN Move(r, "done", [c EXCEPT !.raised = TRUE, !.exc = "Model not loaded"])
           ELSE
           LET enc == encoded_features(model_features, c.features)
               c1 == [c EXCEPT !.steps = <<"encode">>, !.encoded = enc.v]
           IN  IF ~enc.ok THEN Move(r, "done", ErrorResult(c1, enc.err))
               ELSE Move(r, "encoded", c1)
    /\ UNCHANGED <<disk, model, scaler, model_features, scaler_features, pc, last,
                   validated, page>>

\* an input building whose vector assembly updates the encoded map in place
\* with the hardcoded defaults
BuildInputInPlace(r) ==
    /\ reqs[r].pc = "encoded"
    /\ LET c == reqs[r].call
           encoded == OwnEncoded(reqs, r)
           mi == IF Truthy(scaler_features)
                 THEN ScaledInput(scaler, model_features, scaler_features, encoded)
                 ELSE RawInput(model_features, encoded)
           c2 == [c EXCEPT !.steps = @ \o mi.steps, !.full_vector = mi.full_vector,
                           !.model_input = mi.v,
                           !.encoded = IF Truthy(scaler_features)
                                       THEN default_values(encoded) ELSE @]
       IN  IF ~mi.ok THEN Move(r, "done", ErrorResult(c2, mi.err))
           ELSE Move(r, "input", c2)
    /\ UNCHANGED <<disk, model, scaler, model_features, scaler_features, pc, last,
                   validated, page>>

\* Method 1 or Method 2, on the encoded map of the call
BuildInput(r) ==
    /\ reqs[r].pc = "encoded"
    /\ LET c == reqs[r].call
           encoded == OwnEncoded(reqs, r)
           mi == IF Truthy(scaler_features)
                 THEN ScaledInput(scaler, model_features, scaler_features, encoded)
                 ELSE RawInput(model_features, encoded)
           c2 == [c EXCEPT !.steps = @ \o mi.steps, !.full_vector = mi.full_vector,
                           !.model_input = mi.v]
       IN  IF ~mi.ok THEN Move(r, "done", ErrorResult(c2, mi.err))
           ELSE Move(r, "input", c2)
    /\ UNCHANGED <<disk, model, scaler, model_features, scaler_features, pc, last,
                   validated, page>>

\* model.predict, np.exp and _get_prediction_info
Invoke(r) ==
    /\ reqs[r].pc = "input"
    /\ LET c == reqs[r].call
           pl == predict(model.obj.n_in, 0, c.model_input)
           c3 == [c EXCEPT !.steps = @ \o <<"predict">>]
       IN  IF ~pl.ok THEN Move(r, "done", ErrorResult(c3, pl.err))
           ELSE Move(r, "done",
                     [c3 EXCEPT
                        !.steps = @ \o <<"info">>,
                        !.price = PriceFromLog(pl.v),
                        !.info = _get_prediction_info(model, model_features,
                                     c.model_input, PriceFromLog(pl.v), c.encoded)])
    /\ UNCHANGED <<disk, model, scaler, model_features, scaler_features, pc, last,
                   validated, page>>

\* request r calls validate_input
Validate(r) ==
    /\ reqs[r].pc = "idle"
    /\ validated < MaxValidations
    /\ validated' = validated + 1
    /\ \E features \in ServedInputs : Move(r, "done", validate_input(features))
    /\ UNCHANGED <<disk, model, scaler, model_features, scaler_features, pc, last,
                   page>>

\* request r calls get_feature_importance
Importance(r) ==
    /\ reqs[r].pc = "idle"
    /\ Move(r, "done", get_feature_importance(model, model_features, MaxTopN))
    /\ UNCHANGED <<disk, model, scaler, model_features, scaler_features, pc, last,
                   validated, page>>

\* request r calls get_model_info
ModelInfo(r) ==
    /\ reqs[r].pc = "idle"
    /\ Move(r, "done", get_model_info(model, model_features, scaler_features))
    /\ UNCHANGED <<disk, model, scaler, model_features, scaler_features, pc, last,
                   validated, page>>

\* request r has its answer and may call again
Finish(r) ==
    /\ reqs[r].pc = "done"
    /\ Move(r, "idle", NoCall)
    /\ UNCHANGED <<disk, model, scaler, model_features, scaler_features, pc, last,
                   validated, page>>

ServingNext ==
    \E r \in Requests :
        \/ Call(r)
        \/ Encode(r)
        \/ BuildInput(r)
        \/ Invoke(r)
        \/ Validate(r)
        \/ Importance(r)
        \/ ModelInfo(r)
        \/ Finish(r)

ServingSpec == ServingInit /\ [][ServingNext]_vars

(***************************************************************************)
(* The prediction page of app.py: it collects a fixed set of attributes    *)
(* from its widgets, calls predict_price and, for a price that is not 0,   *)
(* shows the confidence card.  Factors are carried in percent.             *)
(***************************************************************************)
\* a page that sends every attribute of the hardcoded reduced schema too
PageFeaturesWithReducedSchema ==
    <<Entry("GrLivArea", PyInt(1500)), Entry("BedroomAbvGr", PyInt(3)),
      Entry("FullBath", PyInt(2)), Entry("OverallQual", PyInt(7)),
      Entry("LotArea", PyInt(8000)), Entry("YearBuilt", PyInt(2000)),
      Entry("GarageArea", PyInt(400)), Entry("Neighborhood", PyStr("CollgCr"))>>
    \o SelectSeq(SampleEntries,
                 LAMBDA e : e.k \notin {"GrLivArea", "OverallQual", "Neighborhood"})

\* the features dict of render_prediction_page with the widgets' first values
PageFeatures ==
    <<Entry("GrLivArea", PyInt(1500)), Entry("BedroomAbvGr", PyInt(3)),
      Entry("FullBath", PyInt(2)), Entry("OverallQual", PyInt(7)),
      Entry("LotArea", PyInt(8000)), Entry("YearBuilt", PyInt(2000)),
      Entry("GarageArea", PyInt(400)), Entry("Neighborhood", PyStr("CollgCr")),
      Entry("MSZoning", PyStr("RL")), Entry("LotFrontage", PyInt(60)),
      Entry("HouseStyle", PyStr("1Story")), Entry("LotShape", PyStr("Reg")),
      Entry("LandContour", PyStr("Lvl")), Entry("LandSlope", PyStr("Gtl")),
      Entry("OverallCond", PyInt(7)), Entry("ExterQual", PyStr("TA")),
      Entry("HeatingQC", PyStr("TA")), Entry("TotalBsmtSF", PyInt(0)),
      Entry("1stFlrSF", PyInt(1000)), Entry("2ndFlrSF", PyInt(0)),
      Entry("GarageCars", PyInt(2)), Entry("GarageType", PyStr("Attchd")),
      Entry("GarageFinish", PyStr("Fin")), Entry("HalfBath", PyInt(1)),
      Entry("TotRmsAbvGrd", PyInt(7)), Entry("Fireplaces", PyInt(1)),
      Entry("WoodDeckSF", PyInt(0)), Entry("PoolArea", PyInt(0)),
      Entry("CentralAir", PyStr("Y"))>>

\* other values the user may pick in some of the widgets
PageChoices ==
    [MSZoning : {PyStr("RL"), PyStr("FV"), PyStr("A")},
     GrLivArea : {PyInt(1500), PyInt(3000)},
     GarageFinish : {PyStr("Fin"), PyStr("Unf")},
     CentralAir : {PyStr("Y"), PyStr("N")}]

PageInputs ==
    {DictPut(DictPut(DictPut(DictPut(PageFeatures, "MSZoning", c.MSZoning),
                             "GrLivArea", c.GrLivArea),
                     "GarageFinish", c.GarageFinish),
             "CentralAir", c.CentralAir) : c \in PageChoices}

PageInit ==
    /\ disk \in ServedDisks
    /\ model = _load_model(disk).model
    /\ model_features = _load_model(disk).model_features
    /\ scaler = _load_scaler(disk).scaler
    /\ scaler_features = _load_scaler(disk).scaler_features
    /\ pc = "idle"
    /\ last = NoCall
    /\ reqs = [r \in Requests |-> IdleRequest]
    /\ validated = 0
    /\ page = NoPage

\* the button: predictor.predict_price(features)
SubmitPage ==
    /\ pc = "idle"
    /\ pc' = "returned"
    /\ \E features \in PageInputs :
          last' = predict_price(model, scaler, model_features, scaler_features, features)
    /\ UNCHANGED <<disk, model, scaler, model_features, scaler_features,
                   reqs, validated, page>>

\* the if / elif / else over feature_count, the same in the page and in
\* display_confidence_interval
confidence_tier(feature_count) ==
    IF feature_count >= 15
    THEN [confidence_factor |-> 80, confidence_text |-> "High"]
    ELSE IF feature_count >= 10
    THEN [confidence_factor |-> 100, confidence_text |-> "Medium"]
    ELSE [confidence_factor |-> 120, confidence_text |-> "Medium"]

\* if prediction: ... the confidence card with its dynamic bounds
DisplayConfidence ==
    /\ pc = "returned"
    /\ last.op = "predict_price"
    /\ ~last.raised
    /\ last.price # 0
    /\ pc' = "shown"
    /\ LET feature_count == IF "input_features_count" \in last.info.keys
                            THEN last.info.input_features_count
                            ELSE 8
           tier == confidence_tier(feature_count)
           error_amount == (last.price * 15 * tier.confidence_factor) \div 10000
       IN  page' = [shown |-> TRUE,
                    feature_count |-> feature_count,
                    confidence_text |-> tier.confidence_text,
                    confidence_factor |-> tier.confidence_factor,
                    lower_bound |-> last.price - error_amount,
                    upper_bound |-> last.price + error_amount]
    /\ UNCHANGED <<disk, model, scaler, model_features, scaler_features, last,
                   reqs, validated>>

\* the next rerun of the page clears the card
Dismiss ==
    /\ pc = "shown"
    /\ pc' = "idle"
    /\ last' = NoCall
    /\ page' = NoPage
    /\ UNCHANGED <<disk, model, scaler, model_features, scaler_features,
                   reqs, validated>>

PageNext ==
    \/ SubmitPage
    \/ PredictPrice
    \/ DisplayConfidence
    \/ Dismiss
    \/ Return

PageSpec == PageInit /\ [][PageNext]_vars

(***************************************************************************)
(* Properties.                                                             *)
(***************************************************************************)
Returned(op) == pc = "returned" /\ last.op = op

\* a call whose full vector was assembled: a direct call that did not raise,
\* or a prediction that took the scaled branch
Assembled ==
    \/ Returned("create_full_feature_vector") /\ ~last.raised
    \/ Returned("predict_price") /\ InList("assemble", last.steps)

\* a prediction that came back with a price and the info of a success
Succeeded ==
    /\ Returned("predict_price")
    /\ ~last.raised
    /\ "error" \notin last.info.keys
    /\ "prediction" \in last.info.keys

\* a prediction in the error shape: price 0 and a described error
ErrorShape ==
    /\ Returned("predict_price")
    /\ ~last.raised
    /\ last.price = 0
    /\ "error" \in last.info.keys
    /\ last.info.error # ""

\* the encoding loop of the last prediction ran to its end
EncodingCompleted == Returned("predict_price") /\ Len(last.steps) > 1

\* a value float() cannot read
NonNumeric(v) == v.t = "none" \/ (v.t = "str" /\ v.s \notin DOMAIN NumericStrings)

\* the caller's entries whose name is in the reduced schema
SuppliedKeys == {k \in Keys(last.features) : InList(k, model_features.v)}

\* C1: every slot of the assembled vector whose name is both a key of the
\* hardcoded default table and a key of the caller's map holds the caller's
\* value.
C1_OverridePrecedence ==
    Assembled =>
        \A i \in 1..Len(last.full_vector) :
            LET name == scaler_features.v[i]
            IN  (Has(HardcodedDefaults, name) /\ Has(last.encoded, name))
                    => last.full_vector[i] = DictGet(last.encoded, name, PyNone)

\* C2: no call of predict_price, validate_input, get_feature_importance or
\* get_model_info ends with an exception that reaches the caller.
C2_NoExceptionEscapes ==
    (pc = "returned" /\ last.op \in {"predict_price", "validate_input",
                                     "get_feature_importance", "get_model_info"})
        => ~last.raised

\* C3: with a loaded model, a string value of a categorical attribute of the
\* reduced schema never makes the encoding fail: when every other supplied
\* value is a number the encoding runs to its end, and whenever it does, a
\* code of the attribute's table is stored as its ordinal and any other code
\* as the attribute's default ordinal.
C3_TotalEncoding ==
    (Returned("predict_price") /\ model.loaded) =>
        /\ (\A i \in 1..Len(last.features) :
               (InList(last.features[i].k, model_features.v)
                /\ last.features[i].k \notin CategoricalFeatures)
                   => IsNumber(last.features[i].v))
             => EncodingCompleted
        /\ EncodingCompleted =>
             \A i \in 1..Len(last.features) :
                 LET k == last.features[i].k
                     v == last.features[i].v
                 IN  (k \in CategoricalFeatures /\ InList(k, model_features.v)
                      /\ v.t = "str")
                         => /\ Has(last.encoded, k)
                            /\ DictGet(last.encoded, k, PyNone) =
                                  PyInt(IF v.s \in DOMAIN mapping(k)
                                        THEN mapping(k)[v.s]
                                        ELSE MappingDefault[k])

\* C3 witness: a prediction that got an unknown garage type and one that got
\* a known one have both been encoded.
C3_Witness ==
    /\ EncodingCompleted
    /\ model.loaded
    /\ Has(last.features, "GarageType")
    /\ DictGet(last.features, "GarageType", PyNone) = PyStr("ZZ")
    /\ DictGet(last.encoded, "GarageType", PyNone) = PyInt(1)

\* C4 (as claimed): every key of the raw map is a key of the encoded map.
C4_EveryKeyEncoded ==
    EncodingCompleted => Keys(last.encoded) = Keys(last.features)

\* C4 (amended): when the encoding loop runs to its end, the keys of the
\* encoded map are exactly the caller's keys that are names of the reduced
\* schema; a categorical one holds an int ordinal, every other one the
\* caller's number as a float.
C4_ReducedKeysEncoded ==
    EncodingCompleted =>
        /\ Keys(last.encoded) = SuppliedKeys
        /\ \A k \in SuppliedKeys :
              LET v == DictGet(last.features, k, PyNone)
                  e == DictGet(last.encoded, k, PyNone)
              IN  IF k \in CategoricalFeatures
                  THEN e.t = "int"
                  ELSE /\ e.t = "float"
                       /\ IsNumber(v) => e.n = v.n
                       /\ v.t = "str" => e.n = NumericStrings[v.s]

\* C4 witness: an encoded prediction whose map held a name outside the
\* reduced schema next to numeric and categorical names inside it.
C4_Witness ==
    /\ EncodingCompleted
    /\ Keys(last.features) \ SuppliedKeys # {}
    /\ SuppliedKeys \cap CategoricalFeatures # {}
    /\ SuppliedKeys \ CategoricalFeatures # {}

\* C5 (as claimed): with a loaded model, a non-numeric value for any
\* attribute that is not categorical yields the error shape.
C5_ErrorShapeAnyNumeric ==
    (Returned("predict_price") /\ model.loaded
     /\ \E i \in 1..Len(last.features) :
           /\ last.features[i].k \notin CategoricalFeatures
           /\ NonNumeric(last.features[i].v))
        => ErrorShape

\* C5 (amended): with a loaded model, a non-numeric value for an attribute
\* of the reduced schema that is not categorical yields the error shape.
C5_ErrorShapeReducedNumeric ==
    (Returned("predict_price") /\ model.loaded
     /\ \E i \in 1..Len(last.features) :
           /\ last.features[i].k \notin CategoricalFeatures
           /\ InList(last.features[i].k, model_features.v)
           /\ NonNumeric(last.features[i].v))
        => ErrorShape

\* C5 witness: the living area came as text that is no number and the call
\* returned the error shape.
C5_Witness ==
    /\ ErrorShape
    /\ model.loaded
    /\ InList("GrLivArea", model_features.v)
    /\ DictGet(last.features, "GrLivArea", PyNone) = PyStr("abc")
    /\ last.steps = <<"encode">>

\* C6: a predictor whose model did not load answers every predict_price call
\* with "Model not loaded" before any step of the pipeline runs, and no step
\* of the program ever loads the model afterwards.
C6_UnavailableForever ==
    /\ []((Returned("predict_price") /\ ~model.loaded)
            => (last.raised /\ last.exc = "Model not loaded" /\ last.steps = <<>>))
    /\ [][~model.loaded => ~model'.loaded]_vars

\* C6 witness: a predict_price call on a predictor without a model raised.
C6_Witness ==
    /\ Returned("predict_price")
    /\ ~model.loaded
    /\ last.raised
    /\ Len(last.features) > 0

\* C7: the confidence label of a successful prediction is "High" when 15 or
\* more attributes of the reduced schema were supplied and "Medium" otherwise.
C7_ConfidenceThreshold ==
    Succeeded =>
        last.info.confidence =
            IF Cardinality(SuppliedKeys) >= 15 THEN "High" ELSE "Medium"

\* every supplied value of a numeric attribute of the reduced schema can be
\* read as a number
WellFormed ==
    \A i \in 1..Len(last.features) :
        (InList(last.features[i].k, model_features.v)
         /\ last.features[i].k \notin CategoricalFeatures)
            => ~NonNumeric(last.features[i].v)

\* predict_price took the branch that skips normalization
Degraded == ~Truthy(scaler_features)

EnsemblePredicts ==
    /\ model.obj.estimators.some
    /\ \A i \in 1..Len(model.obj.estimators.v) : model.obj.estimators.v[i] # NoPredict

C9_FullVectorComplete ==
    Assembled =>
        /\ Len(last.full_vector) = Len(scaler_features.v)
        /\ \A i \in 1..Len(scaler_features.v) :
              LET name == scaler_features.v[i]
              IN  /\ IsNumber(last.full_vector[i])
                  /\ last.full_vector[i] =
                        IF Has(HardcodedDefaults, name)
                        THEN DictGet(HardcodedDefaults, name, PyNone)
                        ELSE IF Has(last.encoded, name)
                        THEN DictGet(last.encoded, name, PyNone)
                        ELSE PyFloat(0)

\* C9 witness: the empty map was assembled into a vector of the full
\* schema's 82 slots.
C9_Witness ==
    /\ Returned("create_full_feature_vector")
    /\ ~last.raised
    /\ last.encoded = EmptyDict
    /\ Len(scaler_features.v) = Len(FullSchema)
    /\ Len(last.full_vector) = Len(FullSchema)

\* C10: whenever both schemas are loaded, every name of the reduced schema
\* is a name of the full schema.
C10_ReducedSubsetOfFull ==
    (model_features.some /\ scaler_features.some)
        => \A i \in 1..Len(model_features.v) :
               InList(model_features.v[i], scaler_features.v)

\* a step inside the try block of the last prediction raised: the steps end
\* at the one that failed, a successful call ends with the info step
StepRaised ==
    /\ Returned("predict_price")
    /\ ~last.raised
    /\ last.steps[Len(last.steps)] # "info"

\* C11: a prediction in which a step of the try block raised returns price 0
\* and an info whose only key is the error; a prediction that ran through
\* returns an info without an error key; so the error key is there exactly
\* when the call failed.
C11_OneErrorShape ==
    (Returned("predict_price") /\ ~last.raised) =>
        /\ StepRaised <=> "error" \in last.info.keys
        /\ StepRaised => (last.price = 0 /\ last.info.keys = {"error"})
        /\ ~StepRaised => /\ "prediction" \in last.info.keys
                          /\ last.info.prediction = last.price
                          /\ last.price > 0

\* C11 witness: the model rejected the width of its input and the call came
\* back as price 0 with the error as the only key.
C11_Witness ==
    /\ StepRaised
    /\ last.steps = <<"encode", "raw", "predict">>
    /\ last.price = 0
    /\ last.info.keys = {"error"}

\* the code each comment of the encoding branches names as the default
CommentedDefaultCode ==
    ("MSZoning" :> "RL" @@ "RoofStyle" :> "Gable" @@ "BsmtQual" :> "Gd" @@
     "BsmtExposure" :> "Av" @@ "HeatingQC" :> "Gd" @@ "CentralAir" :> "Y" @@
     "KitchenQual" :> "Gd" @@ "FireplaceQu" :> "TA" @@ "GarageType" :> "Attchd" @@
     "GarageFinish" :> "RFn" @@ "PavedDrive" :> "Y" @@ "SaleCondition" :> "Normal")

\* C12: an unrecognized code of a categorical attribute is encoded as the
\* ordinal that the attribute's own table gives to its typical code.
C12_DefaultIsTypicalCode ==
    EncodingCompleted =>
        \A i \in 1..Len(last.features) :
            LET k == last.features[i].k
                v == last.features[i].v
            IN  (k \in DOMAIN CommentedDefaultCode /\ InList(k, model_features.v)
                 /\ v.t = "str" /\ v.s \notin DOMAIN mapping(k))
                    => DictGet(last.encoded, k, PyNone) =
                          PyInt(mapping(k)[CommentedDefaultCode[k]])

\* C14: the price of a successful prediction is exp of the one raw output of
\* the model on the model input built for the call, with nothing else applied
\* to it, and the prediction entry of the info is that same price.
C14_PriceIsExpOfLog ==
    Succeeded =>
        LET prediction_log == predict(model.obj.n_in, 0, last.model_input)
        IN  /\ prediction_log.ok
            /\ last.price = exp(prediction_log.v)
            /\ last.info.prediction = last.price

\* C14 witness: a successful prediction whose raw output was the highest
\* log level, returned as that level's price.
C14_Witness ==
    /\ Succeeded
    /\ predict(model.obj.n_in, 0, last.model_input).v = LogLevels[Len(LogLevels)]
    /\ last.price = exp(LogLevels[Len(LogLevels)])

\* the selection of the scaled branch of the last prediction went through
Selected ==
    /\ Returned("predict_price")
    /\ InList("select", last.steps)
    /\ InList("predict", last.steps)

\* C15: in scaled mode the model input has one column per name of the reduced
\* schema, and column i is the normalized value of the slot of the full
\* schema that carries the name model_features[i].
C15_ScaledSelectionByName ==
    Selected =>
        LET scaled == transform(scaler, last.full_vector)
        IN  /\ scaled.ok
            /\ Len(last.model_input) = Len(model_features.v)
            /\ \A i \in 1..Len(model_features.v) :
                 \E j \in 1..Len(scaler_features.v) :
                    /\ scaler_features.v[j] = model_features.v[i]
                    /\ \A h \in 1..(j - 1) : scaler_features.v[h] # model_features.v[i]
                    /\ last.model_input[i] = scaled.v[j]

\* C15 witness: a scaled prediction whose reduced schema orders its names
\* differently from the full schema, so that the selection moved a value.
C15_Witness ==
    /\ Selected
    /\ Succeeded
    /\ \E i \in 1..Len(model_features.v) : scaler_features.v[i] # model_features.v[i]
    /\ \E i \in 1..Len(last.model_input) : last.model_input[i].n > Len(scaler_features.v)

\* C16: in degraded mode the model input has one value per name of the
\* reduced schema, in the schema's order: the encoded value of a supplied
\* name and 0 for an absent one; nothing is normalized and no hardcoded
\* default is applied.
C16_DegradedRawInput ==
    (Returned("predict_price") /\ InList("raw", last.steps) /\ model_features.some) =>
        /\ ~InList("assemble", last.steps)
        /\ ~InList("transform", last.steps)
        /\ last.full_vector = <<>>
        /\ Len(last.model_input) = Len(model_features.v)
        /\ \A i \in 1..Len(model_features.v) :
             LET name == model_features.v[i]
             IN  last.model_input[i] =
                    IF name \in Keys(last.encoded)
                    THEN last.encoded[IndexOfKey(last.encoded, name)].v
                    ELSE PyInt(0)

\* C16 witness: a degraded prediction with a supplied name, and an absent
\* name that the hardcoded default table knows, left at 0.
C16_Witness ==
    /\ Returned("predict_price")
    /\ InList("raw", last.steps)
    /\ Succeeded
    /\ \E i \in 1..Len(model_features.v) :
          /\ model_features.v[i] \in Keys(last.encoded)
          /\ last.model_input[i].n # 0
    /\ \E i \in 1..Len(model_features.v) :
          /\ model_features.v[i] \notin Keys(last.encoded)
          /\ Has(HardcodedDefaults, model_features.v[i])
          /\ last.model_input[i] = PyInt(0)

\* C17: a loaded model has the reduced schema of the first source that can be
\* read, in the order: the model's own names, data/selected_features.csv,
\* src/data/selected_features.csv, the hardcoded list of 21 names; and that
\* schema is never empty.
C17_SchemaFallbackNonEmpty ==
    model.loaded =>
        /\ model_features.some
        /\ model_features.v =
              IF disk.model_file.names.some THEN disk.model_file.names.v
              ELSE IF disk.csv1.ok THEN disk.csv1.rows
              ELSE IF disk.csv2.ok THEN disk.csv2.rows
              ELSE FallbackFeatures
        /\ Len(FallbackFeatures) = 21
        /\ Len(model_features.v) > 0

\* C18: construction completes whatever the state of the two artifacts: a
\* missing or corrupt model artifact leaves the predictor without model and
\* without reduced schema, a missing or corrupt scaler artifact leaves it
\* without scaler and without full schema; get_model_info reports 'Loaded'
\* exactly when the model is set and 'Not Loaded' otherwise, and a
\* feature_count of 0 when no reduced schema was loaded.
C18_ConstructionNeverFails ==
    /\ disk.model_file.state \in {"missing", "corrupt"}
          => (~model.loaded /\ model_features = None)
    /\ disk.model_file.state = "ok" => model = Loaded(disk.model_file)
    /\ disk.scaler_file.state \in {"missing", "corrupt"}
          => (~scaler.loaded /\ scaler_features = None)
    /\ disk.scaler_file.state = "ok" => scaler = LoadedScaler(disk.scaler_file)
    /\ (Returned("get_model_info") /\ ~last.raised) =>
          /\ last.model_info.status = "Loaded" <=> disk.model_file.state = "ok"
          /\ last.model_info.status = "Not Loaded" <=> disk.model_file.state # "ok"
          /\ model_features = None => last.model_info.feature_count = 0
          /\ (model_features.some /\ model_features.v # <<>>)
                => last.model_info.feature_count = Len(model_features.v)

\* C18 witness: a predictor built over a corrupt model artifact and a working
\* scaler reports 'Not Loaded' and no features.
C18_Witness ==
    /\ Returned("get_model_info")
    /\ disk.model_file.state = "corrupt"
    /\ scaler.loaded
    /\ scaler_features.some
    /\ last.model_info.status = "Not Loaded"
    /\ last.model_info.feature_count = 0

\* the message of every rule that a map violates
ViolatedRules(features) ==
    {f \o " must be a positive number" :
        f \in {g \in {"LotArea", "GrLivArea", "YearBuilt", "OverallQual", "OverallCond"} :
                 /\ g \in Keys(features)
                 /\ LET value == features[IndexOfKey(features, g)].v
                    IN  ~IsNumber(value) \/ value.n < 0}}
    \cup (IF /\ {"YearBuilt", "YearRemodAdd"} \subseteq Keys(features)
             /\ IsNumber(features[IndexOfKey(features, "YearBuilt")].v)
             /\ IsNumber(features[IndexOfKey(features, "YearRemodAdd")].v)
             /\ features[IndexOfKey(features, "YearRemodAdd")].v.n
                   < features[IndexOfKey(features, "YearBuilt")].v.n
          THEN {"Renovation year cannot be before construction year"}
          ELSE {})
    \cup (IF /\ "GrLivArea" \in Keys(features)
             /\ IsNumber(features[IndexOfKey(features, "GrLivArea")].v)
             /\ features[IndexOfKey(features, "GrLivArea")].v.n > 10000
          THEN {"Living area seems unusually large (>10,000 sq ft)"}
          ELSE {})

\* C19: validate_input returns one message for every rule its map violates
\* (a negative or non-numeric LotArea, GrLivArea, YearBuilt, OverallQual or
\* OverallCond, a YearRemodAdd before YearBuilt, a GrLivArea above 10000) and
\* no other message, and its flag is true exactly when there is no message.
C19_EveryViolationReported ==
    Returned("validate_input") =>
        /\ ~last.raised
        /\ {last.errors[i] : i \in 1..Len(last.errors)} = ViolatedRules(last.features)
        /\ Len(last.errors) = Cardinality(ViolatedRules(last.features))
        /\ last.valid <=> last.errors = <<>>

\* request r has the answer of a predict_price call
Answered(r) == reqs[r].pc = "done" /\ reqs[r].call.op = "predict_price"

\* what a call returns to its caller: the exception, or the price and info
Outcome(call) ==
    [raised |-> call.raised, exc |-> call.exc, price |-> call.price, info |-> call.info]

\* C13: no step of any public operation changes model, scaler, reduced
\* schema or full schema, and however the steps of several requests
\* interleave, every predict_price call returns the price and info that the
\* same call returns when it runs alone on the same map.
C13_InterleavingSafe ==
    /\ [][UNCHANGED <<model, scaler, model_features, scaler_features>>]_vars
    /\ [](\A r \in Requests :
            Answered(r) =>
                Outcome(reqs[r].call) =
                    Outcome(predict_price(model, scaler, model_features,
                                          scaler_features, reqs[r].call.features)))

\* C13 witness: a request has its price while another request, with another
\* map, is between its encoding and the building of its model input.
C13_Witness ==
    \E r \in Requests, q \in Requests :
        /\ Answered(r)
        /\ "prediction" \in reqs[r].call.info.keys
        /\ reqs[q].pc = "encoded"
        /\ reqs[q].call.features # reqs[r].call.features
        /\ reqs[q].call.encoded # reqs[r].call.encoded

\* C20: a validate_input call changes nothing of the predictor, and a
\* predict_price call returns what it returns on a freshly built predictor
\* on which validate_input was never called, also for a map that
\* validate_input rejects and however many validate_input calls came first.
C20_ValidationIndependent ==
    /\ [][validated' # validated =>
             UNCHANGED <<model, scaler, model_features, scaler_features>>]_vars
    /\ [](\A r \in Requests :
            Answered(r) =>
                Outcome(reqs[r].call) =
                    Outcome(predict_price(_load_model(disk).model,
                                          _load_scaler(disk).scaler,
                                          _load_model(disk).model_features,
                                          _load_scaler(disk).scaler_features,
                                          reqs[r].call.features)))

\* C20 witness: after a validate_input call, a map that validate_input
\* rejects has been given a price.
C20_Witness ==
    /\ validated > 0
    /\ \E r \in Requests :
          /\ Answered(r)
          /\ ~validate_input(reqs[r].call.features).raised
          /\ ~validate_input(reqs[r].call.features).valid
          /\ "prediction" \in reqs[r].call.info.keys
          /\ reqs[r].call.price > 0

\* the exponentiated predictions of the sub-estimators on the model input
\* of the last prediction
MemberPrices ==
    [i \in 1..Len(model.obj.estimators.v) |->
        exp(predict(model.obj.n_in, model.obj.estimators.v[i], last.model_input).v)]

\* the interval of the last prediction is price -/+ 1.96 sigma, clipped at 0
IntervalAroundPrice ==
    LET sigma == std(MemberPrices)
    IN  /\ {"std_deviation", "confidence_interval"} \subseteq last.info.keys
        /\ last.info.std_deviation = sigma
        /\ last.info.lower =
              (IF last.price - (196 * sigma) \div 100 < 0 THEN 0
               ELSE last.price - (196 * sigma) \div 100)
        /\ last.info.upper = last.price + (196 * sigma) \div 100
        /\ 0 <= last.info.lower
        /\ last.info.lower <= last.price
        /\ last.price <= last.info.upper

\* C21 (as claimed): the info of a successful prediction holds the interval
\* [max(0, price - 1.96 sigma), price + 1.96 sigma] whenever the model
\* exposes sub-estimators, sigma being the standard deviation of their
\* exponentiated predictions, and holds no interval when it exposes none.
C21_IntervalWheneverEnsemble ==
    Succeeded =>
        IF model.obj.estimators.some
        THEN IntervalAroundPrice
        ELSE "confidence_interval" \notin last.info.keys

\* C21 (amended): the info of a successful prediction holds that interval
\* when the model exposes sub-estimators and every one of them predicts on
\* the model input; when it exposes none, or one of them raises, the info
\* holds neither the interval nor the standard deviation.
C21_IntervalWhenMembersPredict ==
    Succeeded =>
        IF EnsemblePredicts
        THEN IntervalAroundPrice
        ELSE /\ "confidence_interval" \notin last.info.keys
             /\ "std_deviation" \notin last.info.keys

\* C21 witness: an ensemble whose members disagree so much that the lower
\* end of the interval was clipped at 0.
C21_Witness ==
    /\ Succeeded
    /\ EnsemblePredicts
    /\ "confidence_interval" \in last.info.keys
    /\ last.info.std_deviation > 0
    /\ last.price - (196 * last.info.std_deviation) \div 100 < 0
    /\ last.info.lower = 0
    /\ last.info.upper > last.price

\* C22: the category of a successful prediction is Budget below 150000,
\* Premium above 400000 and Mid-range for every other price, 150000 and
\* 400000 included; exactly one of the three labels applies.
C22_CategoryThresholds ==
    Succeeded =>
        /\ "category" \in last.info.keys
        /\ last.info.category \in {"Budget (Under $150K)", "Premium ($400K+)",
                                   "Mid-range ($150K-$400K)"}
        /\ last.info.category = "Budget (Under $150K)" <=> last.price < 150000
        /\ last.info.category = "Premium ($400K+)" <=> last.price > 400000
        /\ last.info.category = "Mid-range ($150K-$400K)"
              <=> (150000 <= last.price /\ last.price <= 400000)

\* C22 witness: a price of exactly 150000 was labelled Mid-range.
C22_Witness ==
    /\ Succeeded
    /\ last.price = 150000
    /\ last.info.category = "Mid-range ($150K-$400K)"

\* C23: in the info of a successful prediction input_features_count is the
\* number of supplied attributes that belong to the reduced schema,
\* missing_features_count is the size of the reduced schema minus that
\* number, neither is negative and they add up to the size of the schema.
C23_FeatureCounts ==
    Succeeded =>
        /\ last.info.input_features_count = Cardinality(SuppliedKeys)
        /\ last.info.missing_features_count =
              Len(model_features.v) - Cardinality(SuppliedKeys)
        /\ last.info.input_features_count >= 0
        /\ last.info.missing_features_count >= 0
        /\ last.info.input_features_count + last.info.missing_features_count
              = Len(model_features.v)

\* C23 witness: a successful prediction on a map that holds a key outside
\* the reduced schema beside keys inside it.
C23_Witness ==
    /\ Succeeded
    /\ \E k \in Keys(last.features) : ~InList(k, model_features.v)
    /\ last.info.input_features_count > 0
    /\ last.info.input_features_count < Len(last.features)
    /\ last.info.missing_features_count > 0

\* the entries of the last get_feature_importance result; None has none
Ranked == IF last.importance.some THEN last.importance.v ELSE <<>>

\* the entries of the last result are name and score of one position each,
\* no name twice, in descending order of score, and no omitted one of the
\* first n positions has a higher score than a returned one
RankedTopOf(n) ==
    LET scores == model.obj.importances.v
    IN  /\ \A j \in 1..Len(Ranked) :
              \E i \in (1..n) \cap DOMAIN scores :
                  /\ model_features.v[i] = Ranked[j].k
                  /\ scores[i] = Ranked[j].v
        /\ \A j \in 1..Len(Ranked), h \in 1..Len(Ranked) :
              /\ (j < h => Ranked[j].v >= Ranked[h].v)
              /\ (j # h => Ranked[j].k # Ranked[h].k)
        /\ \A i \in (1..n) \cap DOMAIN scores :
              model_features.v[i] \notin Keys(Ranked)
                  => \A j \in 1..Len(Ranked) : Ranked[j].v >= scores[i]

\* C24 (as claimed): with a loaded model that exposes importances the result
\* pairs every score with the reduced-schema name of its position, is in
\* descending order, has exactly min(top_n, size of the reduced schema)
\* entries and omits no higher score; otherwise the result is None.
C24_TopNOfSchema ==
    Returned("get_feature_importance") =>
        IF model.loaded /\ model.obj.importances.some
        THEN /\ Len(Ranked) = Min(last.top_n, Len(model_features.v))
             /\ RankedTopOf(Len(model_features.v))
        ELSE last.importance = None

\* the positions that have both a name and a score
Paired == Min(Len(model_features.v), Len(model.obj.importances.v))

\* C24 (amended): with a loaded model that exposes importances and a
\* non-empty reduced schema the result pairs names and scores position by
\* position up to the shorter of the two lists, is in descending order, has
\* exactly min(top_n, number of pairs) entries and omits no higher score;
\* with an unloaded model, no importances or an empty schema it is None.
C24_TopNOfPairs ==
    Returned("get_feature_importance") =>
        IF model.loaded /\ model.obj.importances.some /\ model_features.v # <<>>
        THEN /\ last.importance.some
             /\ Len(Ranked) = Min(last.top_n, Paired)
             /\ RankedTopOf(Paired)
        ELSE last.importance = None

\* C24 witness: a model with fewer scores than the reduced schema has names
\* was asked for more entries than it has scores and returned one per score.
C24_Witness ==
    /\ Returned("get_feature_importance")
    /\ last.importance.some
    /\ Len(model.obj.importances.v) < Len(model_features.v)
    /\ last.top_n > Len(model.obj.importances.v)
    /\ Len(Ranked) = Len(model.obj.importances.v)
    /\ Ranked[1].v > Ranked[Len(Ranked)].v

\* C25: while a predict_price call runs, the map the caller passed keeps its
\* keys and values, and the encoded map that create_full_feature_vector is
\* given comes back as it went in; two calls with equal maps on the same
\* predictor have equal encoded maps, equal full vectors and equal results.
C25_EncodingAndAssemblyPure ==
    /\ [][\A r \in Requests :
            (reqs[r].pc # "idle" /\ reqs'[r].pc # "idle")
                => reqs'[r].call.features = reqs[r].call.features]_vars
    /\ [][\A r \in Requests :
            (reqs[r].pc = "encoded" /\ reqs'[r].pc \in {"input", "done"})
                => reqs'[r].call.encoded = reqs[r].call.encoded]_vars
    /\ [](\A r \in Requests, q \in Requests :
            (Answered(r) /\ Answered(q)
             /\ reqs[r].call.features = reqs[q].call.features)
                => /\ reqs[r].call.encoded = reqs[q].call.encoded
                   /\ reqs[r].call.full_vector = reqs[q].call.full_vector
                   /\ Outcome(reqs[r].call) = Outcome(reqs[q].call))

\* C25 witness: two requests passed the same map and both have a price
\* that went through the assembly of the full vector.
C25_Witness ==
    \E r \in Requests, q \in Requests :
        /\ r # q
        /\ Answered(r)
        /\ Answered(q)
        /\ reqs[r].call.features = reqs[q].call.features
        /\ reqs[r].call.features # <<>>
        /\ reqs[r].call.full_vector # <<>>
        /\ "prediction" \in reqs[r].call.info.keys
        /\ "prediction" \in reqs[q].call.info.keys

\* C26: the confidence card reads 'High' for 15 or more supplied attributes,
\* 'Medium' for 10 to 14 and 'Low' for fewer than 10, with 0.8, 1.0 and 1.2
\* times the 15% base margin.
C26_ThreeTierConfidence ==
    page.shown =>
        /\ page.confidence_text =
              IF page.feature_count >= 15 THEN "High"
              ELSE IF page.feature_count >= 10 THEN "Medium"
              ELSE "Low"
        /\ page.confidence_factor =
              IF page.feature_count >= 15 THEN 80
              ELSE IF page.feature_count >= 10 THEN 100
              ELSE 120
        /\ page.upper_bound - last.price =
              (last.price * 15 * page.confidence_factor) \div 10000

\* the last prediction was issued by the page under the hardcoded schema
PagePrediction ==
    /\ pc \in {"returned", "shown"}
    /\ last.op = "predict_price"
    /\ Keys(last.features) = Keys(PageFeatures)
    /\ model.loaded
    /\ model_features.v = FallbackFeatures

\* C27: a prediction that the page issues under the hardcoded reduced schema
\* encodes fewer than 15 attributes whatever the widgets hold, so its card
\* never reads from the branch for 15 or more.
C27_HighNeverFromPage ==
    PagePrediction =>
        /\ Len(last.encoded) < 15
        /\ Cardinality({k \in Keys(last.features) : InList(k, FallbackFeatures)}) < 15
        /\ page.shown => (page.feature_count < 15 /\ page.confidence_factor # 80
                          /\ page.confidence_text # "High")

\* C27 witness: the card of a page prediction under the hardcoded schema,
\* with the 11 attributes the page and the schema share.
C27_Witness ==
    /\ PagePrediction
    /\ page.shown
    /\ page.feature_count = 11
    /\ page.confidence_text = "Medium"
    /\ \E i \in 1..Len(last.features) :
          last.features[i] = Entry("MSZoning", PyStr("A"))

\* C28: the full schema is set only if the scaler is set: a missing or
\* unreadable scaler leaves both unset, a scaler without names leaves the
\* schema unset; predict_price normalizes exactly when the full schema is
\* non-empty, and then the scaler it calls is there.
C28_SchemaOnlyWithScaler ==
    /\ scaler_features.some => scaler.loaded
    /\ disk.scaler_file.state # "ok" => (~scaler.loaded /\ ~scaler_features.some)
    /\ (disk.scaler_file.state = "ok" /\ ~disk.scaler_file.names.some)
          => (scaler.loaded /\ ~scaler_features.some)
    /\ EncodingCompleted =>
          /\ InList("transform", last.steps) <=>
                (scaler_features.some /\ scaler_features.v # <<>>)
          /\ InList("transform", last.steps) =>
                /\ scaler.loaded
                /\ last.steps # <<"encode", "assemble", "transform">>

\* C28 witness: a prediction that was normalized and went on to the
\* selection of the model's slots.
C28_Witness ==
    /\ EncodingCompleted
    /\ scaler.loaded
    /\ scaler_features.some
    /\ InList("transform", last.steps)
    /\ InList("select", last.steps)

\* the last prediction ran the scaled branch under the hardcoded schema
ScaledUnderFallback ==
    /\ Returned("predict_price")
    /\ InList("assemble", last.steps)
    /\ model_features.v = FallbackFeatures

\* C29: no name of the hardcoded reduced schema is a key of the hardcoded
\* default table, and under that schema every value predict_price encoded
\* stands unchanged in the slot of its name in the vector that is normalized.
C29_FallbackDisjointFromDefaults ==
    /\ {FallbackFeatures[i] : i \in 1..Len(FallbackFeatures)}
          \cap Keys(HardcodedDefaults) = {}
    /\ Len(FallbackFeatures) = 21
    /\ Len(HardcodedDefaults) = 61
    /\ ScaledUnderFallback =>
          \A e \in 1..Len(last.encoded), j \in 1..Len(scaler_features.v) :
              scaler_features.v[j] = last.encoded[e].k
                  => last.full_vector[j] = last.encoded[e].v

\* C29 witness: a scaled prediction under the hardcoded schema with an
\* encoded categorical value and an encoded numeric value in their slots.
C29_Witness ==
    /\ ScaledUnderFallback
    /\ Len(last.full_vector) = Len(FullSchema)
    /\ \E e \in 1..Len(last.encoded), j \in 1..Len(scaler_features.v) :
          /\ last.encoded[e].k = "OverallQual"
          /\ scaler_features.v[j] = "OverallQual"
          /\ last.full_vector[j].n = 7
    /\ \E e \in 1..Len(last.encoded) : last.encoded[e].k = "MSZoning"

\* C30: a slot of the assembled vector whose name is neither encoded nor in
\* the hardcoded default table holds 0.0; so under the hardcoded schema an
\* attribute of the reduced schema that was not supplied is normalized as
\* 0.0, also where the encoder's default ordinal for it is not 0.
C30_AbsentSlotIsZero ==
    /\ Assembled =>
          \A j \in 1..Len(scaler_features.v) :
              (scaler_features.v[j] \notin Keys(last.encoded)
               /\ scaler_features.v[j] \notin Keys(HardcodedDefaults))
                  => (last.full_vector[j].t = "float" /\ last.full_vector[j].n = 0)
    /\ ScaledUnderFallback =>
          \A i \in 1..Len(FallbackFeatures), j \in 1..Len(scaler_features.v) :
              (scaler_features.v[j] = FallbackFeatures[i]
               /\ FallbackFeatures[i] \notin Keys(last.features))
                  => last.full_vector[j] = PyFloat(0)

\* C30 witness: under the hardcoded schema a categorical attribute was not
\* supplied; its slot holds 0.0 while its encoder default is another number.
C30_Witness ==
    /\ ScaledUnderFallback
    /\ \E j \in 1..Len(scaler_features.v) :
          /\ scaler_features.v[j] = "KitchenQual"
          /\ "KitchenQual" \notin Keys(last.features)
          /\ last.full_vector[j] = PyFloat(0)
          /\ MappingDefault["KitchenQual"] # 0
    /\ last.encoded # EmptyDict

====
